---- MODULE Spec2Model ----
(***************************************************************************)
(* Model of the MELODY4U backend: the /render handler of server.js and the *)
(* R2 object-store client of r2.js.                                        *)
(*                                                                         *)
(* JavaScript runs a handler to completion between awaits, so there is one *)
(* action per stretch of the handler between two suspension points, plus   *)
(* the actions of the external ffmpeg engine.                              *)
(*                                                                         *)
(* A JavaScript string is a sequence of tokens, each token a TLA+ string   *)
(* standing for a substring; "/" and " " are always tokens of their own.   *)
(***************************************************************************)
EXTENDS Integers, Sequences, FiniteSets, TLC

\* ---------------------------------------------------------------- bounds
NumReqs == 2      \* /render requests that may be in flight together
MaxEvents == 2    \* 'end' / 'error' events one ffmpeg run may emit

Reqs == 1..NumReqs

\* ------------------------------------------------------------- JS values
\* the JavaScript value undefined (distinct from every string, "" included)
Undefined == <<"<undefined>">>
EmptyStr == << >>

\* a presence test that only rejects undefined
Falsy_OnlyUndefined(x) == x = Undefined

\* !x for x a string or undefined
Falsy(x) == x = Undefined \/ x = EmptyStr

\* s.replace(/\/$/, '')
StripTrailingSlash(s) ==
  IF Len(s) > 0 /\ s[Len(s)] = "/" THEN SubSeq(s, 1, Len(s) - 1) ELSE s

\* encodeURI(s): every character the model uses is left alone but the space
EncodeTok(t) == IF t = " " THEN "%20" ELSE t
encodeURI(s) == [i \in 1..Len(s) |-> EncodeTok(s[i])]

\* new URL(s) throws unless s starts with a scheme
Schemes == {"https://", "http://"}
URLThrows(s) == s = Undefined \/ Len(s) < 2 \/ s[1] \notin Schemes

\* index of the first "/" token after the scheme, or Len(s)+1
RECURSIVE HostEnd(_, _)
HostEnd(s, i) == IF i > Len(s) \/ s[i] = "/" THEN i ELSE HostEnd(s, i + 1)

\* new URL(s).hostname
Hostname(s) == SubSeq(s, 2, HostEnd(s, 2) - 1)

R2Domain == ".r2.cloudflarestorage.com"
EndsWithR2Domain(h) == Len(h) > 0 /\ h[Len(h)] = R2Domain

\* ------------------------------------------------------------- R2 client
\* process.env as server.js reads it: the endpoint may be absent
Endpoints ==
  { Undefined,
    <<"https://", "acc1", R2Domain>>,
    <<"https://", "cdn.example.com", "/">> }

\* new R2(cfg)
R2(bucket, accountId, endpoint) ==
  [ bucket    |-> bucket,
    accountId |-> accountId,
    endpoint  |-> IF endpoint = Undefined THEN Undefined
                  ELSE StripTrailingSlash(endpoint) ]

\* R2.publicUrl: does new URL(this.endpoint) throw
publicUrlThrows(c) == URLThrows(c.endpoint)

\* publicUrl that always takes the endpoint as the public base
publicUrl_AlwaysEndpoint(c, key) ==
  StripTrailingSlash(c.endpoint) \o <<"/">> \o encodeURI(key)

\* R2.publicUrl: the value returned when it does not throw
publicUrl(c, key) ==
  IF EndsWithR2Domain(Hostname(c.endpoint))
  THEN <<"https://", c.bucket, ".", c.accountId, R2Domain, "/">> \o encodeURI(key)
  ELSE StripTrailingSlash(c.endpoint) \o <<"/">> \o encodeURI(key)

\* R2.putObject: the object the PutObjectCommand stores
PutObjectCommand(key, body, contentType) ==
  [ Key |-> key, Body |-> body, ContentType |-> contentType ]

\* expiresSeconds = 300, the default of R2.signedUrl
DefaultExpires == 300
\* the TTL the /render handler passes to r2.signedUrl
RenderExpires == 600

\* a signedUrl that ignores the TTL it is given
signedUrl_DefaultTtl(c, key, expiresSeconds) ==
  [ Bucket |-> c.bucket, Key |-> key, expiresIn |-> DefaultExpires ]

\* R2.signedUrl: the grant asked of getSignedUrl, a GetObjectCommand on one
\* key and its expiry
signedUrl(c, key, expiresSeconds) ==
  [ Bucket |-> c.bucket, Key |-> key, expiresIn |-> expiresSeconds ]

\* --------------------------------------------------------------- uuidv4
\* uuidv4() is random; the model takes the identifiers to be unique: the
\* k-th identifier drawn while handling request r is an entry of its own in
\* a table of pairwise distinct identifiers
UuidTable ==
  << "u01", "u02", "u03", "u04", "u05", "u06", "u07", "u08",
     "u09", "u10", "u11", "u12", "u13", "u14", "u15", "u16" >>
\* identifiers that repeat from one request to the next
uuidv4_Repeating(r, k) == UuidTable[k]

uuidv4(r, k) == UuidTable[2 * (r - 1) + k]

\* ---------------------------------------------------------- /render data
VoiceKey == <<"uploads/", "abc-voice.wav">>
MusicKey == <<"uploads/", "def-music.wav">>

\* req.body || {} destructured
Bodies ==
  [ voiceKey : {Undefined, EmptyStr, VoiceKey},
    musicKey : {Undefined, EmptyStr, MusicKey} ]

\* path.join(os.tmpdir(), `mix-${uuidv4()}.mp3`)
OutFile(u) == <<"/tmp", "/", "mix-", u, ".mp3">>
\* an output key generated in the namespace of the uploads
OutKey_InUploads(u) == <<"uploads", "/", u, ".mp3">>

\* `output/${uuidv4()}.mp3`
OutKey(u) == <<"output", "/", u, ".mp3">>

\* ------------------------------------------------------------ local files
HasFile(fs, p) == \E f \in fs : f.path = p
FileData(fs, p) == (CHOOSE f \in fs : f.path = p).data
\* creating or overwriting the file at p
WriteFile(fs, p, d) == {f \in fs : f.path # p} \cup {[path |-> p, data |-> d]}
\* fs.unlinkSync(p) when it does not throw
Unlink(fs, p) == {f \in fs : f.path # p}

\* a put that replaces the whole bucket
Send_Truncating(st, cmd) == {cmd}

\* the bucket after client.send(cmd): last write wins on a key
Send(st, cmd) == {o \in st : o.Key # cmd.Key} \cup {cmd}

NoPath == << >>
NoEvents == [n |-> 0, first |-> "none"]
NoBuffer == [writer |-> 0, complete |-> FALSE]

VARIABLES
  r2,          \* the R2 client built at start-up
  store,       \* the bucket: the set of stored objects
  tmpfs,       \* os.tmpdir(): the set of files, one per path
  pc,          \* where each request's handler is suspended
  body,        \* req.body of each request
  outFile,     \* the handler's outFile
  outKey,      \* the handler's outKey
  fileBuffer,  \* the handler's fileBuffer
  promise,     \* state of the Promise wrapped around the ffmpeg run
  events,      \* the events the ffmpeg run has emitted so far: how many,
               \* and which came first
  delivered,   \* outcomes of the mix the awaiting handler has received
  hist,        \* each request's collaborator calls and their outcomes
  signedReqs,  \* the signed-URL grants each request has asked for
  thrown,      \* the step whose error reached the handler's catch
  responses,   \* the responses sent on res
  urlCalls     \* the calls of r2.publicUrl made on the client by itself

vars == << r2, store, tmpfs, pc, body, outFile, outKey, fileBuffer,
           promise, events, delivered, hist, signedReqs, thrown, responses,
           urlCalls >>

Init ==
  /\ r2 \in { R2("melody4u", "acc1", e) : e \in Endpoints }
  /\ store = { PutObjectCommand(VoiceKey, [writer |-> 0, complete |-> TRUE], "audio/wav"),
               PutObjectCommand(MusicKey, [writer |-> 0, complete |-> TRUE], "audio/wav") }
  /\ tmpfs = {}
  /\ pc = [r \in Reqs |-> "idle"]
  /\ body = [r \in Reqs |-> [voiceKey |-> Undefined, musicKey |-> Undefined]]
  /\ outFile = [r \in Reqs |-> NoPath]
  /\ outKey = [r \in Reqs |-> NoPath]
  /\ fileBuffer = [r \in Reqs |-> NoBuffer]
  /\ promise = [r \in Reqs |-> "none"]
  /\ events = [r \in Reqs |-> NoEvents]
  /\ delivered = [r \in Reqs |-> << >>]
  /\ hist = [r \in Reqs |-> << >>]
  /\ signedReqs = [r \in Reqs |-> << >>]
  /\ thrown = [r \in Reqs |-> "none"]
  /\ responses = [r \in Reqs |-> << >>]
  /\ urlCalls = << >>

\* ------------------------------------------------------------- responses
\* res.status(400).json({ ok: false, error: 'Missing voiceKey or musicKey' })
BadRequest ==
  [status |-> 400, body |-> [ok |-> FALSE, error |-> "Missing voiceKey or musicKey"]]
\* a failure response that passes the failed step on to the caller
RenderFailed_Leaking(detail) ==
  [status |-> 500, body |-> [ok |-> FALSE, error |-> detail]]

\* res.status(500).json({ ok: false, error: 'Render failed' })
RenderFailed(detail) ==
  [status |-> 500, body |-> [ok |-> FALSE, error |-> "Render failed"]]
\* a success response without its url
RenderOk_NoUrl(key, url) ==
  [status |-> 200, body |-> [ok |-> TRUE, outKey |-> key]]

\* res.json({ ok: true, outKey, url })
RenderOk(key, url) ==
  [status |-> 200, body |-> [ok |-> TRUE, outKey |-> key, url |-> url]]

\* if (!voiceKey || !musicKey)
MissingKey(b) == Falsy(b.voiceKey) \/ Falsy(b.musicKey)

Log(h, op, phase) == Append(h, <<op, phase>>)

\* a catch block that logs the error and sends nothing
Catch_NoResponse(r, step) ==
  /\ thrown' = [thrown EXCEPT ![r] = step]
  /\ responses' = responses
  /\ pc' = [pc EXCEPT ![r] = "done"]

\* the catch block of the handler: the error thrown by `step` is logged
\* and the request answered
Catch(r, step) ==
  /\ thrown' = [thrown EXCEPT ![r] = step]
  /\ responses' = [responses EXCEPT ![r] = Append(@, RenderFailed(step))]
  /\ pc' = [pc EXCEPT ![r] = "done"]

\* ---------------------------------------------------------------- /render
\* the request arrives: validation, then the first signedUrl is requested
\* (requests are numbered in their order of arrival)
Render(r, b) ==
  /\ pc[r] = "idle"
  /\ \A q \in Reqs : q < r => pc[q] # "idle"
  /\ body' = [body EXCEPT ![r] = b]
  /\ IF MissingKey(b)
     THEN /\ responses' = [responses EXCEPT ![r] = Append(@, BadRequest)]
          /\ pc' = [pc EXCEPT ![r] = "done"]
          /\ hist' = hist
          /\ signedReqs' = signedReqs
     ELSE /\ hist' = [hist EXCEPT ![r] = Log(@, "signedUrl.voice", "call")]
          /\ signedReqs' = [signedReqs EXCEPT ![r] =
                             Append(@, signedUrl(r2, b.voiceKey, RenderExpires))]
          /\ pc' = [pc EXCEPT ![r] = "awaitVoiceUrl"]
          /\ responses' = responses
  /\ UNCHANGED << r2, urlCalls, store, tmpfs, outFile, outKey, fileBuffer,
                  promise, events, delivered, thrown >>

\* a handler that asks again when the first signedUrl fails
VoiceUrlSettled_Retrying(r, ok) ==
  /\ pc[r] = "awaitVoiceUrl"
  /\ IF ok
     THEN /\ hist' = [hist EXCEPT ![r] =
                       Log(Log(@, "signedUrl.voice", "ok"), "signedUrl.music", "call")]
          /\ signedReqs' = [signedReqs EXCEPT ![r] =
                             Append(@, signedUrl(r2, body[r].musicKey, RenderExpires))]
          /\ pc' = [pc EXCEPT ![r] = "awaitMusicUrl"]
     ELSE /\ hist' = [hist EXCEPT ![r] =
                       Log(Log(@, "signedUrl.voice", "fail"), "signedUrl.voice", "call")]
          /\ signedReqs' = [signedReqs EXCEPT ![r] =
                             Append(@, signedUrl(r2, body[r].voiceKey, RenderExpires))]
          /\ pc' = pc
  /\ UNCHANGED << r2, urlCalls, store, tmpfs, body, outFile, outKey, fileBuffer,
                  promise, events, delivered, thrown, responses >>

\* await r2.signedUrl(voiceKey, 600) settles; on success the second
\* signedUrl is requested
VoiceUrlSettled(r, ok) ==
  /\ pc[r] = "awaitVoiceUrl"
  /\ IF ok
     THEN /\ hist' = [hist EXCEPT ![r] =
                       Log(Log(@, "signedUrl.voice", "ok"), "signedUrl.music", "call")]
          /\ signedReqs' = [signedReqs EXCEPT ![r] =
                             Append(@, signedUrl(r2, body[r].musicKey, RenderExpires))]
          /\ pc' = [pc EXCEPT ![r] = "awaitMusicUrl"]
          /\ UNCHANGED << thrown, responses >>
     ELSE /\ hist' = [hist EXCEPT ![r] = Log(@, "signedUrl.voice", "fail")]
          /\ Catch(r, "signedUrl.voice")
          /\ UNCHANGED signedReqs
  /\ UNCHANGED << r2, urlCalls, store, tmpfs, body, outFile, outKey, fileBuffer,
                  promise, events, delivered >>

\* await r2.signedUrl(musicKey, 600) settles; on success the temp path is
\* allocated and ffmpeg is started on it
MusicUrlSettled(r, ok) ==
  /\ pc[r] = "awaitMusicUrl"
  /\ IF ok
     THEN /\ outFile' = [outFile EXCEPT ![r] = OutFile(uuidv4(r, 1))]
          /\ promise' = [promise EXCEPT ![r] = "pending"]
          /\ hist' = [hist EXCEPT ![r] =
                       Log(Log(@, "signedUrl.music", "ok"), "ffmpeg", "call")]
          /\ pc' = [pc EXCEPT ![r] = "awaitMix"]
          /\ UNCHANGED << thrown, responses >>
     ELSE /\ hist' = [hist EXCEPT ![r] = Log(@, "signedUrl.music", "fail")]
          /\ Catch(r, "signedUrl.music")
          /\ UNCHANGED << outFile, promise >>
  /\ UNCHANGED << r2, urlCalls, signedReqs, store, tmpfs, body, outKey, fileBuffer, events, delivered >>

\* ------------------------------------------------------------ ffmpeg run
\* a completion that every event overwrites
Settle_LastWins(p, outcome) == outcome

\* resolve() / reject(e) on the Promise of the mix: only a pending promise
\* takes the outcome
Settle(p, outcome) == IF p = "pending" THEN outcome ELSE p

\* both listeners resolving the promise
Listener_AlwaysResolve(ev) == "resolved"

\* .on('error', (e) => reject(e)) and .on('end', () => resolve())
Listener(ev) == IF ev = "end" THEN "resolved" ELSE "rejected"

\* the engine writes (part of) its output to the path given to .save()
FfmpegWrite(r) ==
  /\ promise[r] # "none"
  /\ events[r].n = 0
  /\ tmpfs' = WriteFile(tmpfs, outFile[r], [writer |-> r, complete |-> FALSE])
  /\ UNCHANGED << r2, urlCalls, signedReqs, store, pc, body, outFile, outKey, fileBuffer,
                  promise, events, delivered, hist, thrown, responses >>

\* the engine emits 'end' or 'error'; an 'end' that is the run's first event
\* means the output file is fully written and closed
FfmpegEmit(r, ev) ==
  /\ promise[r] # "none"
  /\ events[r].n < MaxEvents
  /\ events' = [events EXCEPT ![r] =
                  [n |-> @.n + 1, first |-> IF @.n = 0 THEN ev ELSE @.first]]
  /\ promise' = [promise EXCEPT ![r] = Settle(@, Listener(ev))]
  /\ tmpfs' = IF ev = "end" /\ events[r].n = 0
              THEN WriteFile(tmpfs, outFile[r], [writer |-> r, complete |-> TRUE])
              ELSE tmpfs
  /\ UNCHANGED << r2, urlCalls, signedReqs, store, pc, body, outFile, outKey, fileBuffer,
                  delivered, hist, thrown, responses >>

\* an await that never throws
Awaited_NeverThrows(p) == "success"

\* what `await new Promise(...)` hands to the handler
Awaited(p) == IF p = "resolved" THEN "success" ELSE "PipelineError"

\* the await on the mix returns or throws; on success the output key is
\* generated and the read of the temp file is started
MixSettled(r) ==
  /\ pc[r] = "awaitMix"
  /\ promise[r] \in {"resolved", "rejected"}
  /\ delivered' = [delivered EXCEPT ![r] = Append(@, Awaited(promise[r]))]
  /\ IF Awaited(promise[r]) = "success"
     THEN /\ outKey' = [outKey EXCEPT ![r] = OutKey(uuidv4(r, 2))]
          /\ hist' = [hist EXCEPT ![r] = Log(Log(@, "ffmpeg", "ok"), "readFile", "call")]
          /\ pc' = [pc EXCEPT ![r] = "awaitRead"]
          /\ UNCHANGED << thrown, responses >>
     ELSE /\ hist' = [hist EXCEPT ![r] = Log(@, "ffmpeg", "fail")]
          /\ Catch(r, "ffmpeg")
          /\ UNCHANGED outKey
  /\ UNCHANGED << r2, urlCalls, signedReqs, store, tmpfs, body, outFile, fileBuffer, promise, events >>

\* await fs.promises.readFile(outFile) settles; on success putObject is
\* started with the bytes read
ReadFileSettled(r, ok) ==
  /\ pc[r] = "awaitRead"
  /\ ok => HasFile(tmpfs, outFile[r])
  /\ IF ok
     THEN /\ fileBuffer' = [fileBuffer EXCEPT ![r] = FileData(tmpfs, outFile[r])]
          /\ hist' = [hist EXCEPT ![r] = Log(Log(@, "readFile", "ok"), "putObject", "call")]
          /\ pc' = [pc EXCEPT ![r] = "awaitPut"]
          /\ UNCHANGED << thrown, responses >>
     ELSE /\ hist' = [hist EXCEPT ![r] = Log(@, "readFile", "fail")]
          /\ Catch(r, "readFile")
          /\ UNCHANGED fileBuffer
  /\ UNCHANGED << r2, urlCalls, signedReqs, store, tmpfs, body, outFile, outKey,
                  promise, events, delivered >>

\* a handler whose unlink is not wrapped in try/catch: a failed deletion
\* goes to the catch block of the handler
PutObjectSettled_UnlinkEscalates(r, ok, unlinkOk) ==
  /\ pc[r] = "awaitPut"
  /\ unlinkOk => HasFile(tmpfs, outFile[r])
  /\ IF ok
     THEN /\ store' = Send(store, PutObjectCommand(outKey[r], fileBuffer[r], "audio/mpeg"))
          /\ tmpfs' = IF unlinkOk THEN Unlink(tmpfs, outFile[r]) ELSE tmpfs
          /\ IF ~unlinkOk \/ publicUrlThrows(r2)
             THEN /\ hist' = [hist EXCEPT ![r] =
                          Log(Log(@, "putObject", "ok"), "unlink",
                              IF unlinkOk THEN "ok" ELSE "fail")]
                  /\ Catch(r, IF unlinkOk THEN "publicUrl" ELSE "unlink")
             ELSE /\ hist' = [hist EXCEPT ![r] =
                          Log(Log(Log(@, "putObject", "ok"), "unlink", "ok"),
                              "publicUrl", "ok")]
                  /\ responses' = [responses EXCEPT ![r] =
                          Append(@, RenderOk(outKey[r], publicUrl(r2, outKey[r])))]
                  /\ pc' = [pc EXCEPT ![r] = "done"]
                  /\ UNCHANGED thrown
     ELSE /\ hist' = [hist EXCEPT ![r] = Log(@, "putObject", "fail")]
          /\ Catch(r, "putObject")
          /\ UNCHANGED << store, tmpfs >>
  /\ UNCHANGED << r2, urlCalls, signedReqs, body, outFile, outKey, fileBuffer,
                  promise, events, delivered >>

\* await r2.putObject(outKey, fileBuffer, 'audio/mpeg') settles; on success
\* the temp file is unlinked (errors swallowed), the public URL derived and
\* the response sent
PutObjectSettled(r, ok, unlinkOk) ==
  /\ pc[r] = "awaitPut"
  /\ unlinkOk => HasFile(tmpfs, outFile[r])
  /\ IF ok
     THEN /\ store' = Send(store, PutObjectCommand(outKey[r], fileBuffer[r], "audio/mpeg"))
          /\ tmpfs' = IF unlinkOk THEN Unlink(tmpfs, outFile[r]) ELSE tmpfs
          /\ IF publicUrlThrows(r2)
             THEN /\ hist' = [hist EXCEPT ![r] =
                          Log(Log(Log(@, "putObject", "ok"), "unlink",
                                  IF unlinkOk THEN "ok" ELSE "fail"),
                              "publicUrl", "fail")]
                  /\ Catch(r, "publicUrl")
             ELSE /\ hist' = [hist EXCEPT ![r] =
                          Log(Log(Log(@, "putObject", "ok"), "unlink",
                                  IF unlinkOk THEN "ok" ELSE "fail"),
                              "publicUrl", "ok")]
                  /\ responses' = [responses EXCEPT ![r] =
                          Append(@, RenderOk(outKey[r], publicUrl(r2, outKey[r])))]
                  /\ pc' = [pc EXCEPT ![r] = "done"]
                  /\ UNCHANGED thrown
     ELSE /\ hist' = [hist EXCEPT ![r] = Log(@, "putObject", "fail")]
          /\ Catch(r, "putObject")
          /\ UNCHANGED << store, tmpfs >>
  /\ UNCHANGED << r2, urlCalls, signedReqs, body, outFile, outKey, fileBuffer,
                  promise, events, delivered >>

Next ==
  \/ \E r \in Reqs, b \in Bodies : Render(r, b)
  \/ \E r \in Reqs, ok \in BOOLEAN : VoiceUrlSettled(r, ok)
  \/ \E r \in Reqs, ok \in BOOLEAN : MusicUrlSettled(r, ok)
  \/ \E r \in Reqs : FfmpegWrite(r)
  \/ \E r \in Reqs, ev \in {"end", "error"} : FfmpegEmit(r, ev)
  \/ \E r \in Reqs : MixSettled(r)
  \/ \E r \in Reqs, ok \in BOOLEAN : ReadFileSettled(r, ok)
  \/ \E r \in Reqs, ok \in BOOLEAN, unlinkOk \in BOOLEAN : PutObjectSettled(r, ok, unlinkOk)

Spec == Init /\ [][Next]_vars

\* What request r is waiting for: the outstanding collaborator call settles
\* (a signedUrl, the first event of the ffmpeg run, readFile, putObject) or
\* the event loop resumes the handler on the settled mix. At most one of
\* these is enabled at a time.
Awaiting(r) ==
  \/ \E ok \in BOOLEAN : VoiceUrlSettled(r, ok)
  \/ \E ok \in BOOLEAN : MusicUrlSettled(r, ok)
  \/ \E ev \in {"end", "error"} : events[r].n = 0 /\ FfmpegEmit(r, ev)
  \/ MixSettled(r)
  \/ \E ok \in BOOLEAN : ReadFileSettled(r, ok)
  \/ \E ok \in BOOLEAN, unlinkOk \in BOOLEAN : PutObjectSettled(r, ok, unlinkOk)

\* Every collaborator call that is outstanding eventually settles, and a
\* handler whose awaited promise has settled is eventually resumed.
Fairness == \A r \in Reqs : WF_vars(Awaiting(r))

\* The specification of the progress of a request. What does not bear on
\* whether a request is answered is fixed: the server has its endpoint
\* configured, a body is {} or complete, and the engine's partial writes
\* are left out. Requests still run concurrently and the engine still emits
\* late events.
LiveInit == Init /\ r2 = R2("melody4u", "acc1", <<"https://", "acc1", R2Domain>>)

LiveBodies ==
  { [voiceKey |-> Undefined, musicKey |-> Undefined],
    [voiceKey |-> VoiceKey, musicKey |-> MusicKey] }

LiveNext ==
  \/ \E r \in Reqs, b \in LiveBodies : Render(r, b)
  \/ \E r \in Reqs, ok \in BOOLEAN : VoiceUrlSettled(r, ok)
  \/ \E r \in Reqs, ok \in BOOLEAN : MusicUrlSettled(r, ok)
  \/ \E r \in Reqs, ev \in {"end", "error"} : FfmpegEmit(r, ev)
  \/ \E r \in Reqs : MixSettled(r)
  \/ \E r \in Reqs, ok \in BOOLEAN : ReadFileSettled(r, ok)
  \/ \E r \in Reqs, ok \in BOOLEAN, unlinkOk \in BOOLEAN : PutObjectSettled(r, ok, unlinkOk)

LiveSpec == LiveInit /\ [][LiveNext]_vars /\ Fairness

\* ------------------------------------------------- the R2 client by itself
MaxUrlCalls == 2   \* calls of publicUrl made on one client

\* endpoints a client may be built with: absent, the native host (bare,
\* with a trailing slash, with a path), a custom domain (with and without
\* trailing slash), a host that only contains the native domain, and a
\* plain http endpoint
UrlEndpoints ==
  { Undefined,
    <<"https://", "acc1", R2Domain>>,
    <<"https://", "acc1", R2Domain, "/">>,
    <<"https://", "acc1", R2Domain, "/", "melody4u">>,
    <<"https://", "cdn.example.com", "/">>,
    <<"https://", "cdn.example.com">>,
    <<"https://", "acc1", R2Domain, ".example.com">>,
    <<"http://", "localhost:9000">> }

\* keys as /render and /upload generate them; an uploaded file name may
\* hold characters that encodeURI escapes
UrlKeys ==
  { OutKey("u01"),
    VoiceKey,
    <<"uploads/", "u02", "-", "my", " ", "song.wav">>,
    <<"uploads/", "u03", "-", "a", " ", "b", " ", "c.mp3">> }

InitUrl ==
  /\ r2 \in { R2("melody4u", "acc1", e) : e \in UrlEndpoints }
  /\ store = { PutObjectCommand(VoiceKey, [writer |-> 0, complete |-> TRUE], "audio/wav"),
               PutObjectCommand(MusicKey, [writer |-> 0, complete |-> TRUE], "audio/wav") }
  /\ tmpfs = {}
  /\ pc = [r \in Reqs |-> "idle"]
  /\ body = [r \in Reqs |-> [voiceKey |-> Undefined, musicKey |-> Undefined]]
  /\ outFile = [r \in Reqs |-> NoPath]
  /\ outKey = [r \in Reqs |-> NoPath]
  /\ fileBuffer = [r \in Reqs |-> NoBuffer]
  /\ promise = [r \in Reqs |-> "none"]
  /\ events = [r \in Reqs |-> NoEvents]
  /\ delivered = [r \in Reqs |-> << >>]
  /\ hist = [r \in Reqs |-> << >>]
  /\ signedReqs = [r \in Reqs |-> << >>]
  /\ thrown = [r \in Reqs |-> "none"]
  /\ responses = [r \in Reqs |-> << >>]
  /\ urlCalls = << >>

\* r2.publicUrl(key) is called: it throws or returns a URL
PublicUrlCall(key) ==
  /\ Len(urlCalls) < MaxUrlCalls
  /\ urlCalls' = Append(urlCalls,
                    IF publicUrlThrows(r2)
                    THEN [key |-> key, threw |-> TRUE, url |-> << >>]
                    ELSE [key |-> key, threw |-> FALSE, url |-> publicUrl(r2, key)])
  /\ UNCHANGED << r2, store, tmpfs, pc, body, outFile, outKey, fileBuffer,
                  promise, events, delivered, hist, signedReqs, thrown, responses >>

NextUrl == \E key \in UrlKeys : PublicUrlCall(key)

SpecUrl == InitUrl /\ [][NextUrl]_vars

\* ============================================================ properties
Has(h, op, phase) == \E i \in 1..Len(h) : h[i] = <<op, phase>>
Count(h, op, phase) == Cardinality({i \in 1..Len(h) : h[i] = <<op, phase>>})
Before(h, op1, ph1, op2, ph2) ==
  \A i \in 1..Len(h) : h[i] = <<op2, ph2>> => \E j \in 1..(i - 1) : h[j] = <<op1, ph1>>
Terminated(r) == pc[r] = "done" /\ responses[r] # << >>
FirstEvent(r, ev) == events[r].n > 0 /\ events[r].first = ev

\* C1: whenever the mix succeeded and the upload of the output failed, the
\* request's temp file is gone once the request has terminated.
C1_TempFileRemovedAfterUploadFailure ==
  \A r \in Reqs :
    (Terminated(r) /\ FirstEvent(r, "end") /\ Has(hist[r], "putObject", "fail"))
      => ~HasFile(tmpfs, outFile[r])

\* C2: whenever the pipeline failed, no (partial) output file is left at the
\* request's temp path once the request has terminated in Failed.
C2_PartialFileRemovedAfterPipelineFailure ==
  \A r \in Reqs :
    (Terminated(r) /\ FirstEvent(r, "error") /\ Has(hist[r], "ffmpeg", "fail"))
      => ~HasFile(tmpfs, outFile[r])

\* C3: a request whose pipeline failed (the mix was rejected by an 'error'
\* event) never reads the output file, never calls putObject, and no object
\* of it is in the store.
C3_NoReadNoPutAfterPipelineFailure ==
  \A r \in Reqs :
    promise[r] = "rejected" =>
      /\ ~Has(hist[r], "readFile", "call")
      /\ ~Has(hist[r], "putObject", "call")
      /\ fileBuffer[r] = NoBuffer
      /\ \A o \in store : o.Key # OutKey(uuidv4(r, 2)) /\ o.Body.writer # r

W3_PipelineFailedAndAnswered ==
  \E r \in Reqs : promise[r] = "rejected" /\ Terminated(r) /\ HasFile(tmpfs, outFile[r])

\* C4: a request whose body lacks voiceKey or musicKey (absent or empty) is
\* answered 400 {ok:false, error:"Missing voiceKey or musicKey"}, with no
\* call of signedUrl, ffmpeg or putObject and no temp file allocated.
C4_MissingKeyRejectedWithoutCalls ==
  \A r \in Reqs :
    (pc[r] # "idle" /\ ( body[r].voiceKey \in {Undefined, EmptyStr}
                       \/ body[r].musicKey \in {Undefined, EmptyStr} ))
      => /\ responses[r] =
              << [status |-> 400,
                  body |-> [ok |-> FALSE, error |-> "Missing voiceKey or musicKey"]] >>
         /\ pc[r] = "done"
         /\ hist[r] = << >>
         /\ promise[r] = "none"
         /\ outFile[r] = NoPath
         /\ \A f \in tmpfs : f.data.writer # r
         /\ \A o \in store : o.Body.writer # r

W4_EmptyBodyAndEmptyKeyRejected ==
  \E p, q \in Reqs :
    /\ body[p] = [voiceKey |-> Undefined, musicKey |-> Undefined] /\ Terminated(p)
    /\ body[q] = [voiceKey |-> VoiceKey, musicKey |-> EmptyStr] /\ Terminated(q)

\* C5: within a request the pipeline is started only after both signed
\* URLs were issued (voice, then music), and putObject is started only
\* after the pipeline reported success (its first event was 'end').
C5_StepsInStateMachineOrder ==
  \A r \in Reqs :
    /\ Before(hist[r], "signedUrl.voice", "ok", "ffmpeg", "call")
    /\ Before(hist[r], "signedUrl.music", "ok", "ffmpeg", "call")
    /\ Before(hist[r], "signedUrl.voice", "ok", "signedUrl.music", "call")
    /\ Before(hist[r], "ffmpeg", "ok", "readFile", "call")
    /\ Before(hist[r], "ffmpeg", "ok", "putObject", "call")
    /\ Has(hist[r], "ffmpeg", "call") <=> promise[r] # "none"
    /\ Has(hist[r], "putObject", "call") => FirstEvent(r, "end")

W5_UploadStartedAfterMix ==
  \E r \in Reqs : pc[r] = "awaitPut" /\ Has(hist[r], "putObject", "call")

\* C6: a request with both keys present that ends in success made exactly
\* one put; the store holds exactly one object under its key, the key is
\* output/<unique id>.mp3, the content type is audio/mpeg, and the url of
\* the response is the public base of the store followed by "/" and that key.
C6_SuccessWritesOneOutputObject ==
  \A r \in Reqs :
    \A i \in 1..Len(responses[r]) :
      responses[r][i].status = 200 =>
        /\ Count(hist[r], "putObject", "call") = 1
        /\ Count(hist[r], "putObject", "ok") = 1
        /\ Cardinality({o \in store : o.Key = outKey[r]}) = 1
        /\ \A o \in store : o.Key = outKey[r] => o.ContentType = "audio/mpeg"
        /\ \A o \in store : o.Body.writer = r => o.Key = outKey[r]
        /\ Len(outKey[r]) = 4
        /\ SubSeq(outKey[r], 1, 2) = <<"output", "/">>
        /\ \E n \in 1..Len(UuidTable) : outKey[r][3] = UuidTable[n]
        /\ outKey[r][4] = ".mp3"
        /\ \A q \in Reqs : q # r => outKey[q] # outKey[r]
        /\ responses[r][i].body.url \in
              { <<"https://", "melody4u", ".", "acc1", R2Domain, "/">> \o outKey[r],
                <<"https://", "cdn.example.com", "/">> \o outKey[r] }

W6_TwoRequestsSucceeded ==
  \A r \in Reqs : Terminated(r) /\ responses[r][1].status = 200

C8_InternalErrorsMappedToRenderFailed ==
  \A r \in Reqs :
    ( \/ thrown[r] # "none"
      \/ \E op \in {"signedUrl.voice", "signedUrl.music", "ffmpeg",
                     "readFile", "putObject", "publicUrl"} : Has(hist[r], op, "fail")
      \/ (pc[r] \notin {"idle", "awaitVoiceUrl", "awaitMusicUrl", "awaitMix"}
            /\ FirstEvent(r, "error")) )
      => /\ pc[r] = "done"
         /\ responses[r] =
              << [status |-> 500, body |-> [ok |-> FALSE, error |-> "Render failed"]] >>

W8_UrlDerivationErrorAnswered ==
  \E p, q \in Reqs :
    /\ thrown[p] = "publicUrl" /\ Terminated(p)
    /\ thrown[q] = "readFile" /\ Terminated(q)

\* C9: concurrent requests are isolated. Any two requests have distinct
\* temp paths and distinct output keys; every temp file is at the path of
\* the request whose ffmpeg run wrote it; a request reads and uploads only
\* bytes its own run wrote; and a temp file disappears only in the step in
\* which its own request completes its upload.
C9_Isolated ==
  /\ \A p, q \in Reqs :
       p # q =>
         /\ outFile[p] # NoPath => outFile[p] # outFile[q]
         /\ outKey[p] # NoPath => outKey[p] # outKey[q]
  /\ \A f \in tmpfs : f.path = outFile[f.data.writer]
  /\ \A r \in Reqs : fileBuffer[r] # NoBuffer => fileBuffer[r].writer = r
  /\ \A r \in Reqs : \A o \in store : o.Key = outKey[r] => o.Body.writer = r

C9_OnlyOwnFileDeleted ==
  \A f \in tmpfs :
    ~HasFile(tmpfs', f.path) =>
      \E r \in Reqs : /\ f.path = outFile[r]
                       /\ f.data.writer = r
                       /\ pc[r] = "awaitPut" /\ pc'[r] = "done"
                       /\ \A q \in Reqs : q # r => outFile[q] # f.path

C9_ConcurrentRendersIsolated == []C9_Isolated /\ [][C9_OnlyOwnFileDeleted]_vars

W9_TwoRendersInFlight ==
  \E p, q \in Reqs :
    /\ p # q
    /\ pc[p] = "awaitPut" /\ HasFile(tmpfs, outFile[p])
    /\ pc[q] = "done" /\ responses[q][1].status = 200 /\ ~HasFile(tmpfs, outFile[q])

\* C10: the mix is a single-shot completion. The handler receives at most
\* one outcome per run, it is the one of the first event the engine emitted
\* ('end': success, 'error': PipelineError), a handler past the mix has
\* received exactly one, and no later event changes the settled promise or
\* the delivered outcome.
C10_OneOutcome ==
  \A r \in Reqs :
    /\ Len(delivered[r]) <= 1
    /\ promise[r] = "resolved" <=> FirstEvent(r, "end")
    /\ promise[r] = "rejected" <=> FirstEvent(r, "error")
    /\ delivered[r] # << >> =>
         delivered[r][1] = (IF FirstEvent(r, "end") THEN "success" ELSE "PipelineError")
    /\ (Has(hist[r], "ffmpeg", "call") /\ pc[r] # "awaitMix") => Len(delivered[r]) = 1

C10_OutcomeStable ==
  \A r \in Reqs :
    /\ promise[r] \in {"resolved", "rejected"} => promise'[r] = promise[r]
    /\ delivered[r] # << >> => delivered'[r] = delivered[r]

C10_MixSingleShot == []C10_OneOutcome /\ [][C10_OutcomeStable]_vars

W10_LateEventAfterDelivery ==
  \E r \in Reqs : events[r] = [n |-> 2, first |-> "end"]
                   /\ promise[r] = "resolved" /\ delivered[r] = <<"success">>
                   /\ pc[r] = "awaitRead"

\* C11: a request asks for one signed read URL per key, first for voiceKey
\* and then for musicKey, each on that one key with expiry 600 seconds; if
\* either issuance fails the request is answered 500 and ffmpeg is never
\* started (no temp path, no promise, no pipeline call).
C11_OneGrantPerKeyTtl600 ==
  \A r \in Reqs :
    /\ Len(signedReqs[r]) =
         Count(hist[r], "signedUrl.voice", "call") + Count(hist[r], "signedUrl.music", "call")
    /\ Count(hist[r], "signedUrl.voice", "call") <= 1
    /\ Count(hist[r], "signedUrl.music", "call") <= 1
    /\ \A i \in 1..Len(signedReqs[r]) :
         /\ signedReqs[r][i].expiresIn = 600
         /\ signedReqs[r][i].Bucket = r2.bucket
         /\ signedReqs[r][i].Key = (IF i = 1 THEN body[r].voiceKey ELSE body[r].musicKey)
    /\ promise[r] # "none" =>
         /\ Len(signedReqs[r]) = 2
         /\ Has(hist[r], "signedUrl.voice", "ok") /\ Has(hist[r], "signedUrl.music", "ok")
    /\ (Has(hist[r], "signedUrl.voice", "fail") \/ Has(hist[r], "signedUrl.music", "fail")) =>
         /\ pc[r] = "done"
         /\ responses[r] =
              << [status |-> 500, body |-> [ok |-> FALSE, error |-> "Render failed"]] >>
         /\ promise[r] = "none"
         /\ outFile[r] = NoPath
         /\ ~Has(hist[r], "ffmpeg", "call")
         /\ events[r].n = 0

W11_SecondIssuanceFailed ==
  \E r \in Reqs : /\ Terminated(r)
                   /\ Has(hist[r], "signedUrl.music", "fail")
                   /\ Len(signedReqs[r]) = 2
                   /\ signedReqs[r][2] = [Bucket |-> "melody4u", Key |-> MusicKey, expiresIn |-> 600]

\* C12: no retries. Each signedUrl, the pipeline, the read and the upload is
\* started at most once per request; a failure of one of them is the last
\* thing the request does, it ends the request with its one response, and
\* no step of the request runs afterwards.
StepOps == {"signedUrl.voice", "signedUrl.music", "ffmpeg", "readFile", "putObject"}
StepFailed(r) == \E op \in StepOps : Has(hist[r], op, "fail")

C12_AtMostOnce ==
  \A r \in Reqs :
    /\ \A op \in StepOps : Count(hist[r], op, "call") <= 1
    /\ \A op \in StepOps : Count(hist[r], op, "ok") + Count(hist[r], op, "fail") <= 1
    /\ \A i \in 1..Len(hist[r]) :
         (hist[r][i][1] \in StepOps /\ hist[r][i][2] = "fail") =>
           /\ i = Len(hist[r])
           /\ pc[r] = "done"
           /\ Len(responses[r]) = 1 /\ responses[r][1].status = 500

C12_NothingAfterFailure ==
  \A r \in Reqs :
    StepFailed(r) =>
      /\ hist'[r] = hist[r]
      /\ signedReqs'[r] = signedReqs[r]
      /\ pc'[r] = pc[r]
      /\ responses'[r] = responses[r]
      /\ \A o \in store' : o \notin store => o.Body.writer # r

C12_NoRetries == []C12_AtMostOnce /\ [][C12_NothingAfterFailure]_vars

W12_UploadFailedOnce ==
  \E r \in Reqs : /\ Terminated(r)
                   /\ Has(hist[r], "putObject", "fail")
                   /\ Count(hist[r], "putObject", "call") = 1
                   /\ events[r].n = 2

\* C13: publicUrl never fails at call time: on every client that was
\* constructed, a missing endpoint included, every call returns a URL.
C13_PublicUrlNeverThrows ==
  \A i \in 1..Len(urlCalls) : ~urlCalls[i].threw

\* C14 as stated: the result is the public base (the native virtual-hosted
\* host of the bucket, or else the endpoint without trailing slash) followed
\* by "/" and the key itself.
PctEncoded(k) == [j \in 1..Len(k) |-> IF k[j] = " " THEN "%20" ELSE k[j]]
NativeEndpoint(e) ==
  \E j \in 2..Len(e) : /\ e[j] = R2Domain
                        /\ (j = Len(e) \/ e[j + 1] = "/")
                        /\ \A k \in 2..j : e[k] # "/"
PublicBase(c) ==
  IF NativeEndpoint(c.endpoint)
  THEN <<"https://", c.bucket, ".", c.accountId, ".r2.cloudflarestorage.com">>
  ELSE c.endpoint

C14_Form ==
  /\ \A i \in 1..Len(urlCalls) :
       ~urlCalls[i].threw =>
         /\ urlCalls[i].url = PublicBase(r2) \o <<"/">> \o PctEncoded(urlCalls[i].key)
         /\ PublicBase(r2)[Len(PublicBase(r2))] # "/"
  /\ \A i, j \in 1..Len(urlCalls) :
       urlCalls[i].key = urlCalls[j].key => urlCalls[i] = urlCalls[j]

C14_NoStoreCall ==
  urlCalls' # urlCalls => (store' = store /\ hist' = hist /\ signedReqs' = signedReqs)

C15_UnlinkAfterUploadAndSwallowed ==
  \A r \in Reqs :
    /\ Before(hist[r], "putObject", "ok", "unlink", "ok")
    /\ Before(hist[r], "putObject", "ok", "unlink", "fail")
    /\ Count(hist[r], "unlink", "ok") + Count(hist[r], "unlink", "fail") <= 1
    /\ thrown[r] # "unlink"
    /\ (Len(responses[r]) > 0 /\ responses[r][1].status = 200) =>
         /\ Has(hist[r], "unlink", "ok") \/ Has(hist[r], "unlink", "fail")
         /\ Has(hist[r], "unlink", "ok") => ~HasFile(tmpfs, outFile[r])
    /\ (Has(hist[r], "unlink", "fail") /\ r2.endpoint # Undefined) =>
         /\ pc[r] = "done"
         /\ Len(responses[r]) = 1
         /\ responses[r][1].status = 200
         /\ responses[r][1].body.ok = TRUE
         /\ responses[r][1].body.outKey = outKey[r]
         /\ \E o \in store : o.Key = outKey[r]

W15_UnlinkFailedStillSuccess ==
  \E r \in Reqs : /\ Has(hist[r], "unlink", "fail")
                   /\ HasFile(tmpfs, outFile[r])
                   /\ Terminated(r) /\ responses[r][1].status = 200

\* C16: every request sends exactly one response. A request has sent none
\* while it runs and exactly one once it is done; a request that has
\* arrived eventually is done with its one response (each collaborator call
\* eventually settling); and after the response the handler does nothing
\* more: no further call, no store object and no file change of its own.
C16_AtMostOneResponse ==
  \A r \in Reqs :
    /\ Len(responses[r]) <= 1
    /\ pc[r] = "done" <=> Len(responses[r]) = 1
    /\ Len(responses[r]) = 1 => responses[r][1].status \in {200, 400, 500}

C16_NothingAfterResponse ==
  \A r \in Reqs :
    Len(responses[r]) > 0 =>
      /\ responses'[r] = responses[r]
      /\ pc'[r] = pc[r]
      /\ hist'[r] = hist[r]
      /\ signedReqs'[r] = signedReqs[r]
      /\ \A o \in store' : o.Body.writer = r => o \in store
      /\ \A f \in tmpfs : f.data.writer = r => f \in tmpfs'
      /\ \A f \in tmpfs' : f.data.writer = r => f \in tmpfs

C16_EventuallyAnswered ==
  \A r \in Reqs : (pc[r] # "idle") ~> (pc[r] = "done" /\ Len(responses[r]) = 1)

C17_FailureLeavesNoObject ==
  \A r \in Reqs :
    \A i \in 1..Len(responses[r]) :
      responses[r][i].body.ok = FALSE =>
        /\ ~Has(hist[r], "putObject", "ok")
        /\ \A o \in store : o.Key # outKey[r] /\ o.Body.writer # r

\* C18: a request leaves the rest of the store unchanged. The objects at
\* voiceKey and musicKey stay as they were, a request has at most one object
\* in the bucket and it is under its own output key; the bucket changes only
\* in the step that completes a request's upload, by the addition of one
\* object under that request's fresh output key, and no step of signed-URL
\* issuance changes the bucket.
C18_InputsKept ==
  /\ PutObjectCommand(VoiceKey, [writer |-> 0, complete |-> TRUE], "audio/wav") \in store
  /\ PutObjectCommand(MusicKey, [writer |-> 0, complete |-> TRUE], "audio/wav") \in store
  /\ \A r \in Reqs :
       /\ Cardinality({o \in store : o.Body.writer = r}) <= 1
       /\ \A o \in store : o.Body.writer = r =>
            /\ o.Key = outKey[r]
            /\ o.Key[1] = "output"
            /\ Has(hist[r], "putObject", "ok")
  /\ Cardinality({o \in store : o.Body.writer # 0}) <= NumReqs

C18_OnlyOwnPut ==
  /\ store \subseteq store'
  /\ store' # store =>
       \E r \in Reqs :
         /\ pc[r] = "awaitPut" /\ pc'[r] = "done"
         /\ store' = store \cup {PutObjectCommand(outKey[r], fileBuffer[r], "audio/mpeg")}
         /\ \A o \in store : o.Key # outKey[r]
         /\ outKey[r] \notin {VoiceKey, MusicKey, body[r].voiceKey, body[r].musicKey}
  /\ \A r \in Reqs :
       (pc[r] \in {"idle", "awaitVoiceUrl", "awaitMusicUrl"} /\ pc'[r] # pc[r])
         => store' = store
  /\ signedReqs' # signedReqs => store' = store

C18_StoreFrame == []C18_InputsKept /\ [][C18_OnlyOwnPut]_vars

W18_OutputsAddedInputsKept ==
  /\ \A r \in Reqs : Terminated(r) /\ \E o \in store : o.Key = outKey[r]
  /\ Cardinality(store) = 2 + NumReqs
  /\ \E o \in store : o.Key = VoiceKey
  /\ \E o \in store : o.Key = MusicKey
====
